---------------------------- MODULE Spec2Model ----------------------------
(***************************************************************************)
(* Checkpoint rewrite for backup (pkg/vm/engine/tae/logtail/backup.go).    *)
(*                                                                         *)
(* ReWriteCheckpointAndBlockFromKey is modelled as a state machine: load   *)
(* the checkpoint, index its metadata rows into objectsData, trim every    *)
(* object at the watermark ts, rewrite the changed objects, fold the       *)
(* promotions back into the metadata tables and persist.  Go's map         *)
(* iteration order is a nondeterministic choice of the next object; every  *)
(* I/O step may fail.  LoadCheckpointEntriesFromKey and the two trim loops *)
(* are also exercised on their own (SpecLoad, SpecTrim).                   *)
(***************************************************************************)
EXTENDS Integers, Sequences, FiniteSets, TLC

VARIABLES
    pc,           \* position inside ReWriteCheckpointAndBlockFromKey
    ts,           \* the watermark
    softDeletes,  \* map[string]map[uint16]bool: object name -> block indices
    srcFs,        \* fs: object name -> stored object
    dstFs,        \* dstFs: object name -> stored object
    stored,       \* the checkpoint's metadata tables as stored at loc
    data,         \* data.bats (and the range index) once loaded
    objectsData,  \* map[string]*fileData
    isCkpChange,  \* trimObjectsData's result so far
    rewritten,    \* objects the rewrite loop has finished
    insertBatch,  \* map[uint64]*iBlocks
    files,        \* names of the objects written for promotions
    persisted,    \* what data.WriteTo stored in dstFs, if it ran
    result,       \* what the call returned
    ioLog,        \* every Sync and Delete issued, with its outcome
    promoted,     \* per promoted object: the batches before and after
    srcFs0,       \* srcFs as the call found it
    dstFs0,       \* dstFs as the call found it
    allocated,    \* the column buffers of loaded block batches not yet released
    arg,          \* SpecTrim, SpecLoad: the arguments of the operation under test
    out           \* SpecTrim, SpecLoad: what it has produced so far

vars == <<pc, ts, softDeletes, srcFs, dstFs, stored, data, objectsData,
          isCkpChange, rewritten, insertBatch, files, persisted, result, ioLog,
          promoted, srcFs0, dstFs0, allocated, arg, out>>

---------------------------------------------------------------------------
(* Bounds of the model.                                                    *)

MaxTs == 2        \* commit timestamps and watermarks are 1..MaxTs
MaxRows == 2      \* rows of the appendable block whose content is enumerated
MaxCN == 2        \* rows of the delete-side table (BLKCNMetaInsert)
MaxIns == 2       \* rows of the live-insert table (BLKMetaInsert)
MaxTrimRows == 3  \* SpecTrim: rows of the block that is trimmed twice
MaxTrimTs == 3    \* SpecTrim: commit timestamps and watermarks are 1..MaxTrimTs

(* Program constants.                                                      *)

MaxUint16 == 65535     \* math.MaxUint16: "no sort key"
PromoteOffset == 1000  \* uint16(1000) + Num()
BookkeepingCols == 3   \* len(Vecs) - 3: row id, commit ts, abort flag

TS == 1..MaxTs

---------------------------------------------------------------------------
(* Generic helpers.                                                        *)

EmptyMap == [x \in {} |-> x]

MapPut(f, k, v) == [x \in DOMAIN f \cup {k} |-> IF x = k THEN v ELSE f[x]]

MapDel(f, k) == [x \in DOMAIN f \ {k} |-> f[x]]

Range(s) == {s[i] : i \in DOMAIN s}

Last(s) == s[Len(s)]

RECURSIVE SeqOfSet(_)
SeqOfSet(S) ==
    IF S = {} THEN <<>>
    ELSE LET m == CHOOSE x \in S : \A y \in S : x <= y
         IN <<m>> \o SeqOfSet(S \ {m})

RECURSIVE SelectIdx(_, _, _)
(* The rows of s whose 0-based index satisfies keep, in order.             *)
SelectIdx(s, keep(_), i) ==
    IF i > Len(s) THEN <<>>
    ELSE (IF keep(i - 1) THEN <<s[i]>> ELSE <<>>) \o SelectIdx(s, keep, i + 1)

RECURSIVE Sum(_, _)
Sum(f, S) ==
    IF S = {} THEN 0
    ELSE LET x == CHOOSE y \in S : TRUE IN f[x] + Sum(f, S \ {x})

Perms(S) ==
    {p \in [1..Cardinality(S) -> S] : \A i, j \in DOMAIN p : i # j => p[i] # p[j]}

SubSeqs(s, n) ==
    (* the subsequences of s of at most n elements *)
    {SelectIdx(s, LAMBDA i : (i + 1) \in I, 1) :
        I \in {J \in SUBSET (DOMAIN s) : Cardinality(J) <= n}}

---------------------------------------------------------------------------
(* objectio: names, block ids, locations.                                  *)

ObjectName(seg, num) == [seg |-> seg, num |-> num]

NoName == ObjectName("", -1)

(* objectio.BuildObjectBlockid(name, sequence) *)
BuildObjectBlockid(name, seq) == [name |-> name, blk |-> seq]

(* objectio.BuildLocation(name, extent, rows, id) *)
BuildLocation(name, extent, rows, id) ==
    [name |-> name, ext |-> extent, rows |-> rows, id |-> id]

NoLoc == BuildLocation(NoName, [nblk |-> 0, nrow |-> 0], 0, 0)

IsEmpty(loc) == loc.name = NoName

NoKey == [name |-> NoName, id |-> 0]

Key(name, id) == [name |-> name, id |-> id]

(* objectio.HackBlockid2Rowid: the row id that carries only the block id   *)
HackBlockid2Rowid(blockID) == [blk |-> blockID, off |-> 0]

Rowid(blockID, off) == [blk |-> blockID, off |-> off]


---------------------------------------------------------------------------
(* Batches.  A data batch of an appendable block carries the user column   *)
(* (the sort key) followed by the three bookkeeping columns row id,        *)
(* commit ts and abort flag, so Vecs[len-2] is the commit ts.  A tombstone *)
(* batch carries row id, commit ts, primary key and abort flag, so Vecs[0] *)
(* is the row id of the deleted row and Vecs[len-3] the commit ts.         *)

DataRow(key, rid, cts) == [key |-> key, rid |-> rid, ts |-> cts, abort |-> FALSE]

TombstoneRow(rid, cts) == [rid |-> rid, ts |-> cts, pk |-> 0, abort |-> FALSE]

(* The column vectors of a loaded block batch: the user column (or the     *)
(* primary key of a tombstone) and the bookkeeping columns.                *)
BlockCols == BookkeepingCols + 1

(* vecs is the number of column vectors the batch holds.                   *)
Batch(attrs, rows) == [nil |-> FALSE, attrs |-> attrs, rows |-> rows, vecs |-> BlockCols]

NilBatch == [nil |-> TRUE, attrs |-> "", rows |-> <<>>, vecs |-> 0]

(* The rows of a data block whose commit timestamps are tss; the sort key  *)
(* falls as the offset grows, so that sorting moves every row.             *)
MkData(blockID, tss) ==
    [i \in 1..Len(tss) |-> DataRow(Len(tss) - i + 1, Rowid(blockID, i - 1), tss[i])]

(* The rows of a tombstone block: one delete marker per <<block, off, ts>> *)
MkMarks(marks) ==
    [i \in 1..Len(marks) |->
        TombstoneRow(Rowid(marks[i][1], marks[i][2]), marks[i][3])]

---------------------------------------------------------------------------
(* The file service: object name -> stored object.  The header of an       *)
(* object says whether it is appendable and which column is its sort key.  *)

StoredObject(appendable, sortKey, blocks) ==
    [appendable |-> appendable, sortKey |-> sortKey, blocks |-> blocks]

(* The extent of an object's meta area is fixed by what was written.       *)
ExtentOf(obj) ==
    [nblk |-> Len(obj.blocks),
     nrow |-> Sum([i \in DOMAIN obj.blocks |-> Len(obj.blocks[i])], DOMAIN obj.blocks)]

LocationOf(fs, name, id) ==
    BuildLocation(name, ExtentOf(fs[name]), Len(fs[name].blocks[id + 1]), id)

ObjA == ObjectName("seg", 0)       \* appendable, sort key 0, table 1
ObjB == ObjectName("seg", 64536)   \* appendable, no sort key, table 2
ObjN == ObjectName("seg", 1)       \* sealed, dropped after the watermark, table 2
ObjS == ObjectName("seg", 2)       \* sealed, live, table 1
ObjM == ObjectName("seg", 3)       \* sealed, live, table 2
ObjT == ObjectName("seg", 4)       \* tombstones of the appendable blocks
ObjD == ObjectName("seg", 5)       \* tombstones of the live sealed blocks

TableOf(name) == IF name \in {ObjA, ObjS} THEN 1 ELSE 2

A0 == BuildObjectBlockid(ObjA, 0)
B0 == BuildObjectBlockid(ObjB, 0)

(* The source file service, with the rows of block 0 of ObjA and the       *)
(* markers of block 0 of ObjT as given.                                    *)
SourceFs(a0, t0) ==
    [n \in {ObjA, ObjB, ObjN, ObjS, ObjM, ObjT, ObjD} |->
        CASE n = ObjA -> StoredObject(TRUE, 0,
                            <<MkData(A0, a0), MkData(BuildObjectBlockid(ObjA, 1), <<1>>)>>)
          [] n = ObjB -> StoredObject(TRUE, MaxUint16, <<MkData(B0, <<1>>)>>)
          [] n = ObjN -> StoredObject(FALSE, MaxUint16,
                            <<MkData(BuildObjectBlockid(ObjN, 0), <<1, 2>>),
                              MkData(BuildObjectBlockid(ObjN, 1), <<1>>)>>)
          [] n = ObjS -> StoredObject(FALSE, MaxUint16,
                            <<MkData(BuildObjectBlockid(ObjS, 0), <<1, 2>>),
                              MkData(BuildObjectBlockid(ObjS, 1), <<1>>)>>)
          [] n = ObjM -> StoredObject(FALSE, MaxUint16,
                            <<MkData(BuildObjectBlockid(ObjM, 0), <<1>>)>>)
          [] n = ObjT -> StoredObject(FALSE, MaxUint16,
                            <<MkMarks(t0), MkMarks(<<<<B0, 0, 1>>>>)>>)
          [] n = ObjD -> StoredObject(FALSE, MaxUint16,
                            <<MkMarks(<<<<BuildObjectBlockid(ObjS, 0), 0, 2>>>>),
                              MkMarks(<<<<BuildObjectBlockid(ObjM, 0), 0, 2>>>>)>>)]

DefaultA0 == <<1, 2>>

DefaultT0 == <<<<A0, 0, 1>>, <<A0, 1, 2>>>>

(* Enumerated contents of block 0 of ObjA: any commit timestamps, in any   *)
(* order.                                                                  *)
RowChoices == UNION {[1..n -> TS] : n \in 0..MaxRows}

(* Enumerated contents of its tombstone block: at most one marker per row  *)
(* offset (own[off] = 0: none), followed by a marker of another block.     *)
MarkChoices ==
    {SelectIdx([i \in 1..MaxRows |-> <<A0, i - 1, own[i]>>],
               LAMBDA i : own[i + 1] # 0, 1) \o <<<<B0, 0, 1>>>> :
        own \in [1..MaxRows -> 0..MaxTs]}

---------------------------------------------------------------------------
(* The checkpoint's metadata tables.  data.bats[BLKMetaInsertIDX] (ins),   *)
(* [BLKMetaInsertTxnIDX] (insTxn), [BLKMetaDeleteIDX] (del),               *)
(* [BLKMetaDeleteTxnIDX] (delTxn) and [BLKCNMetaInsertIDX] (cnIns).        *)

BlkMetaRow(id, state, sorted, metaLoc, deltaLoc, commitTs) ==
    [rowid |-> HackBlockid2Rowid(id), id |-> id, state |-> state,
     sorted |-> sorted, metaLoc |-> metaLoc, deltaLoc |-> deltaLoc,
     commitTs |-> commitTs, seg |-> id.name.seg]

TxnRow(tid, metaLoc, deltaLoc) ==
    [tid |-> tid, metaLoc |-> metaLoc, deltaLoc |-> deltaLoc]

DelRow(id, commitTs) == [rowid |-> HackBlockid2Rowid(id), commitTs |-> commitTs]

(* A reference of a metadata row: the data block, the tombstone block (or  *)
(* NoKey) and, on the delete side, the commit ts of the drop.              *)
Ref(meta, delta, commitTs) == [meta |-> meta, delta |-> delta, commitTs |-> commitTs]

RefLoc(fs, key) == IF key = NoKey THEN NoLoc ELSE LocationOf(fs, key.name, key.id)

RefRow(fs, r) ==
    BlkMetaRow(BuildObjectBlockid(r.meta.name, r.meta.id),
               fs[r.meta.name].appendable, ~fs[r.meta.name].appendable,
               RefLoc(fs, r.meta), RefLoc(fs, r.delta), r.commitTs)

RefTxn(fs, r) == TxnRow(TableOf(r.meta.name), RefLoc(fs, r.meta), RefLoc(fs, r.delta))

(* The rows the delete-side table is drawn from, in table order.           *)
CNCandidates ==
    << Ref(Key(ObjA, 0), Key(ObjT, 0), MaxTs),
       Ref(Key(ObjA, 0), NoKey, MaxTs),
       Ref(Key(ObjA, 1), NoKey, MaxTs),
       Ref(Key(ObjN, 0), NoKey, MaxTs),
       Ref(Key(ObjN, 0), NoKey, 1),
       Ref(Key(ObjB, 0), Key(ObjT, 1), MaxTs) >>

(* The rows the live-insert table is drawn from, in table order.           *)
InsCandidates ==
    << Ref(Key(ObjS, 0), Key(ObjD, 0), 1),
       Ref(Key(ObjS, 1), NoKey, 1),
       Ref(Key(ObjM, 0), Key(ObjD, 1), 1),
       Ref(Key(ObjN, 0), NoKey, 1) >>

(* TableRowRange: [offset, end) of a table id in a table (end = offset     *)
(* when the table has no row there).                                       *)
RangeOf(txn, tid) ==
    LET I == {i \in DOMAIN txn : txn[i].tid = tid}
    IN IF I = {} THEN [offset |-> 0, end |-> 0]
       ELSE LET lo == CHOOSE i \in I : \A j \in I : i <= j
            IN [offset |-> lo - 1, end |-> lo - 1 + Cardinality(I)]

Tids == {1, 2}

Checkpoint(fs, cn, ins) ==
    [cnIns  |-> [i \in DOMAIN cn |-> RefRow(fs, cn[i])],
     delTxn |-> [i \in DOMAIN cn |-> RefTxn(fs, cn[i])],
     del    |-> [i \in DOMAIN cn |->
                    DelRow(BuildObjectBlockid(cn[i].meta.name, cn[i].meta.id),
                           cn[i].commitTs)],
     ins    |-> [i \in DOMAIN ins |-> RefRow(fs, ins[i])],
     insTxn |-> [i \in DOMAIN ins |-> RefTxn(fs, ins[i])],
     insRange |-> [t \in Tids |-> RangeOf([i \in DOMAIN ins |-> RefTxn(fs, ins[i])], t)],
     delRange |-> [t \in Tids |-> RangeOf([i \in DOMAIN cn |-> RefTxn(fs, cn[i])], t)]]

NoData ==
    [cnIns |-> <<>>, delTxn |-> <<>>, del |-> <<>>, ins |-> <<>>, insTxn |-> <<>>,
     insRange |-> [t \in Tids |-> [offset |-> 0, end |-> 0]],
     delRange |-> [t \in Tids |-> [offset |-> 0, end |-> 0]]]

(* Soft-delete sets handed to the rewrite: none, or one naming a live      *)
(* sealed block, a dropped sealed block and an appendable block.           *)
SoftChoices ==
    { EmptyMap,
      [n \in {ObjS, ObjN, ObjA} |-> IF n = ObjA THEN {1} ELSE {0}] }

(* The locations of the checkpoint itself.                                 *)
SrcLoc == BuildLocation(ObjectName("ckp", 0), [nblk |-> 1, nrow |-> 0], 0, 0)
SrcTnLoc == BuildLocation(ObjectName("ckp", 1), [nblk |-> 1, nrow |-> 0], 0, 0)
NewLoc == BuildLocation(ObjectName("ckp", 2), [nblk |-> 1, nrow |-> 0], 0, 0)
NewTnLoc == BuildLocation(ObjectName("ckp", 3), [nblk |-> 1, nrow |-> 0], 0, 0)

NoResult == [returned |-> FALSE, err |-> "", loc |-> NoLoc, tnLoc |-> NoLoc, files |-> <<>>]

Return(loc, tnLoc, fls, err) ==
    [returned |-> TRUE, err |-> err, loc |-> loc, tnLoc |-> tnLoc, files |-> fls]


---------------------------------------------------------------------------
(* Phase 2: indexing the metadata rows into objectsData.                   *)

FileData(name, isCnBatch, isABlk) ==
    [name |-> name, data |-> EmptyMap, isChange |-> FALSE,
     isDeleteBatch |-> isCnBatch, isABlock |-> isABlk]

BlockData(location, isABlk, isCnBatch, row, tid, blockID, blockType) ==
    [num |-> location.id, location |-> location, blockType |-> blockType,
     isABlock |-> isABlk, tid |-> tid, blockId |-> blockID, sortKey |-> MaxUint16,
     deleteRow |-> IF isCnBatch THEN <<row>> ELSE <<>>,
     insertRow |-> IF isCnBatch THEN <<>> ELSE <<row>>,
     data |-> NilBatch, tombstone |-> NoKey]

addBlockToObjectData(location, isABlk, isCnBatch, row, tid, blockID, blockType, od) ==
    LET name == location.name
        id == location.id
        od1 == IF name \in DOMAIN od THEN od
               ELSE MapPut(od, name, FileData(name, isCnBatch, isABlk))
        blocks == od1[name].data
        blk == IF id \notin DOMAIN blocks
               THEN BlockData(location, isABlk, isCnBatch, row, tid, blockID, blockType)
               ELSE IF isCnBatch
                    THEN [blocks[id] EXCEPT !.deleteRow = Append(@, row)]
                    ELSE [blocks[id] EXCEPT !.insertRow = Append(@, row)]
    IN [od1 EXCEPT ![name].data = MapPut(blocks, id, blk)]

(* IsSoftDeleted of an indexing that skips no row.                         *)
IsSoftDeletedNever(sd, loc) == FALSE

(* softDeletes[name] != nil && softDeletes[name][id] *)
IsSoftDeleted(sd, loc) == loc.name \in DOMAIN sd /\ loc.id \in sd[loc.name]

Indexed(od) == [panic |-> FALSE, od |-> od]

Panicked(od) == [panic |-> TRUE, od |-> od]

RECURSIVE IndexDeleteSide(_, _, _, _, _)
(* The loop over blkCNMetaInsert, from row i (0-based) on.                 *)
IndexDeleteSide(d, wm, sd, i, od) ==
    IF i >= Len(d.cnIns) THEN Indexed(od)
    ELSE LET metaLoc == d.cnIns[i + 1].metaLoc
             deltaLoc == d.cnIns[i + 1].deltaLoc
             isABlk == d.cnIns[i + 1].state
             commits == d.cnIns[i + 1].commitTs
             blkID == d.cnIns[i + 1].id
             tid == d.delTxn[i + 1].tid
             od1 == IF ~IsEmpty(deltaLoc)
                    THEN addBlockToObjectData(deltaLoc, isABlk, TRUE, i, tid, blkID,
                                              "tombstone", od)
                    ELSE od
             od2 == IF ~IsEmpty(metaLoc)
                    THEN addBlockToObjectData(metaLoc, isABlk, TRUE, i, tid, blkID,
                                              "data", od1)
                    ELSE od1
             od3 == IF ~IsEmpty(metaLoc) /\ isABlk /\ ~IsEmpty(deltaLoc)
                    THEN [od2 EXCEPT ![metaLoc.name].data[metaLoc.id].tombstone =
                                        Key(deltaLoc.name, deltaLoc.id)]
                    ELSE od2
         IN IF commits < wm THEN Panicked(od)
            ELSE IF ~IsEmpty(metaLoc) /\ IsSoftDeleted(sd, metaLoc)
                 THEN IndexDeleteSide(d, wm, sd, i + 1, od)
                 ELSE IndexDeleteSide(d, wm, sd, i + 1, od3)

RECURSIVE IndexInsertSide(_, _, _)
(* The loop over blkMetaInsert, from row i (0-based) on.                   *)
IndexInsertSide(d, i, od) ==
    IF i >= Len(d.ins) THEN Indexed(od)
    ELSE LET metaLoc == d.ins[i + 1].metaLoc
             deltaLoc == d.ins[i + 1].deltaLoc
             isABlk == d.ins[i + 1].state
             blkID == d.ins[i + 1].id
             tid == d.insTxn[i + 1].tid
             od1 == IF ~IsEmpty(metaLoc)
                    THEN addBlockToObjectData(metaLoc, isABlk, FALSE, i, tid, blkID,
                                              "data", od)
                    ELSE od
             od2 == IF ~IsEmpty(deltaLoc)
                    THEN addBlockToObjectData(deltaLoc, isABlk, FALSE, i, tid, blkID,
                                              "tombstone", od1)
                    ELSE od1
         IN IF isABlk THEN Panicked(od)
            ELSE IndexInsertSide(d, i + 1, od2)

IndexCheckpoint(d, wm, sd) ==
    LET cn == IndexDeleteSide(d, wm, sd, 0, EmptyMap)
    IN IF cn.panic THEN cn ELSE IndexInsertSide(d, 0, cn.od)

---------------------------------------------------------------------------
(* Phase 3: trimObjectsData.                                               *)

(* batch.Shrink(sels): keep the rows at the given offsets.                 *)
Shrink(rows, sels) == SelectIdx(rows, LAMBDA i : i \in Range(sels), 1)

(* batch.AntiShrink(sels): drop the rows at the given offsets.             *)
AntiShrink(rows, sels) == SelectIdx(rows, LAMBDA i : i \notin Range(sels), 1)

(* windowCNBatch(bat, start, end): the rows at offsets [start, end)        *)
windowCNBatch(rows, start, end) == SubSeq(rows, start + 1, end)

(* formatData: a batch with rows gets the attribute names col_i and is     *)
(* re-encoded; an empty batch is returned as loaded.                       *)
formatData(bat) == IF Len(bat.rows) > 0 THEN Batch("col", bat.rows) ELSE bat

(* blockio.LoadOneBlock *)
LoadOneBlock(fs, location) == Batch("schema", fs[location.name].blocks[location.id + 1])

CanLoad(fs, location) ==
    location.name \in DOMAIN fs /\ location.id + 1 \in DOMAIN fs[location.name].blocks

(* trimTombstone with the rows committed at the watermark dropped too.     *)
trimTombstoneStrict(rows, wm) ==
    LET deleteRow == SeqOfSet({v \in 0..(Len(rows) - 1) : rows[v + 1].ts < wm})
    IN [rows |-> IF Len(deleteRow) # Len(rows) THEN Shrink(rows, deleteRow) ELSE rows,
        isChange |-> \E v \in 0..(Len(rows) - 1) : rows[v + 1].ts >= wm]

(* The tombstone branch: the offsets whose commit ts is not after the      *)
(* watermark are kept.                                                     *)
trimTombstone(rows, wm) ==
    LET deleteRow == SeqOfSet({v \in 0..(Len(rows) - 1) : ~(rows[v + 1].ts > wm)})
    IN [rows |-> IF Len(deleteRow) # Len(rows) THEN Shrink(rows, deleteRow) ELSE rows,
        isChange |-> \E v \in 0..(Len(rows) - 1) : rows[v + 1].ts > wm]

(* trimData cutting at the first row committed at or after the watermark.  *)
trimDataAtOrAfter(rows, wm) ==
    LET late == {v \in 0..(Len(rows) - 1) : rows[v + 1].ts >= wm}
    IN IF late = {} THEN [rows |-> rows, isChange |-> FALSE]
       ELSE LET v == CHOOSE x \in late : \A y \in late : x <= y
            IN [rows |-> windowCNBatch(rows, 0, v), isChange |-> TRUE]

(* trimData cutting at the first row committed before the watermark.      *)
trimDataLess(rows, wm) ==
    LET early == {v \in 0..(Len(rows) - 1) : rows[v + 1].ts < wm}
    IN IF early = {} THEN [rows |-> rows, isChange |-> FALSE]
       ELSE LET v == CHOOSE x \in early : \A y \in early : x <= y
            IN [rows |-> windowCNBatch(rows, 0, v), isChange |-> TRUE]

(* The data branch: the batch is cut at the first row whose commit ts is   *)
(* after the watermark.                                                    *)
trimData(rows, wm) ==
    LET late == {v \in 0..(Len(rows) - 1) : rows[v + 1].ts > wm}
    IN IF late = {} THEN [rows |-> rows, isChange |-> FALSE]
       ELSE LET v == CHOOSE x \in late : \A y \in late : x <= y
            IN [rows |-> windowCNBatch(rows, 0, v), isChange |-> TRUE]

(* Whether the trim loop loads the block at all.                           *)
IsTrimmed(block) == ~(~block.isABlock /\ block.blockType = "data")

(* One iteration of the inner loop on a block the loop loads.              *)
trimBlock(fs, wm, block) ==
    LET bat == LoadOneBlock(fs, block.location)
    IN IF block.blockType = "tombstone"
       THEN LET t == trimTombstone(bat.rows, wm)
            IN [block |-> [block EXCEPT !.data = formatData(Batch(bat.attrs, t.rows))],
                isChange |-> t.isChange]
       ELSE LET sortKey == IF fs[block.location.name].appendable
                           THEN fs[block.location.name].sortKey
                           ELSE MaxUint16
                t == trimData(bat.rows, wm)
            IN [block |-> [block EXCEPT !.data = formatData(Batch(bat.attrs, t.rows)),
                                        !.sortKey = sortKey],
                isChange |-> t.isChange]

(* The inner loop over the blocks in ids (all of them trimmed blocks).     *)
trimBlocks(fs, wm, object, ids) ==
    [object EXCEPT
        !.data = [id \in DOMAIN object.data |->
                    IF id \in ids THEN trimBlock(fs, wm, object.data[id]).block
                    ELSE object.data[id]]]

TrimmedIds(object) == {id \in DOMAIN object.data : IsTrimmed(object.data[id])}

AnyChange(fs, wm, object, ids) ==
    \E id \in ids : trimBlock(fs, wm, object.data[id]).isChange


---------------------------------------------------------------------------
(* The initial states: a watermark, a checkpoint, a soft-delete set and    *)
(* the two file services.                                                  *)

NotPersisted == [done |-> FALSE, data |-> NoData]

NoArg == [rows |-> <<>>, t1 |-> 0, t2 |-> 0]

InitWith(wm, cn, ins, sd, copied, a0, t0) ==
    /\ pc = "load"
    /\ ts = wm
    /\ softDeletes = sd
    /\ srcFs = SourceFs(a0, t0)
    /\ dstFs = IF copied THEN SourceFs(a0, t0) ELSE EmptyMap
    /\ stored = Checkpoint(SourceFs(a0, t0), cn, ins)
    /\ data = NoData
    /\ objectsData = EmptyMap
    /\ isCkpChange = FALSE
    /\ rewritten = {}
    /\ insertBatch = EmptyMap
    /\ files = <<>>
    /\ persisted = NotPersisted
    /\ result = NoResult
    /\ ioLog = {}
    /\ promoted = EmptyMap
    /\ srcFs0 = SourceFs(a0, t0)
    /\ dstFs0 = IF copied THEN SourceFs(a0, t0) ELSE EmptyMap
    /\ allocated = {}
    /\ arg = NoArg
    /\ out = <<>>

(* Every checkpoint drawn from the candidate rows, over the default block  *)
(* contents, with the destination empty or already holding a copy of the   *)
(* source objects.                                                         *)
InitLayouts ==
    \E wm \in TS, cn \in SubSeqs(CNCandidates, MaxCN), ins \in SubSeqs(InsCandidates, MaxIns),
       sd \in SoftChoices, copied \in BOOLEAN :
        InitWith(wm, cn, ins, sd, copied, DefaultA0, DefaultT0)

(* One appendable block with its tombstone block and one live sealed       *)
(* block, over every enumerated content of the two.                        *)
InitContents ==
    \E wm \in TS, a0 \in RowChoices, t0 \in MarkChoices :
        InitWith(wm, SubSeq(CNCandidates, 1, 1), SubSeq(InsCandidates, 1, 1),
                 EmptyMap, FALSE, a0, t0)

Init == InitLayouts

---------------------------------------------------------------------------
(* ReWriteCheckpointAndBlockFromKey, step by step.                         *)

NilReturn(err) == Return(NoLoc, NoLoc, <<>>, err)

(* The column buffers reachable from objectsData: Vecs[z] of the batch of  *)
(* every block that has one.                                               *)
HeldBuffers(od) ==
    UNION {UNION {{[block |-> Key(name, id), col |-> z] :
                        z \in 0..(od[name].data[id].data.vecs - 1)} :
                    id \in {j \in DOMAIN od[name].data : ~od[name].data[j].data.nil}} :
            name \in DOMAIN od}

(* Lines 331-342: the deferred loop frees what objectsData holds when the  *)
(* call returns or panics.                                                 *)
DeferredFree(buffers, od) == buffers \ HeldBuffers(od)

(* Phase 1: getCheckpointData.                                             *)
LoadCheckpoint ==
    /\ pc = "load"
    /\ \E ok \in BOOLEAN :
        IF ok
        THEN /\ data' = stored
             /\ pc' = "index"
             /\ UNCHANGED result
        ELSE /\ result' = NilReturn("io")
             /\ pc' = "done"
             /\ UNCHANGED data
    /\ UNCHANGED <<ts, softDeletes, srcFs, dstFs, stored, objectsData,
                   isCkpChange, rewritten, insertBatch, files, persisted, ioLog,
                   promoted, srcFs0, dstFs0, allocated, arg, out>>

(* Phase 2: the two indexing loops; either may panic.                      *)
IndexObjects ==
    /\ pc = "index"
    /\ LET r == IndexCheckpoint(data, ts, softDeletes)
       IN IF r.panic
          THEN pc' = "panic" /\ UNCHANGED objectsData
          ELSE pc' = "trim" /\ objectsData' = r.od
    /\ UNCHANGED <<ts, softDeletes, srcFs, dstFs, stored, data, isCkpChange,
                   rewritten, insertBatch, files, persisted, result, ioLog, promoted,
                   srcFs0, dstFs0, allocated, arg, out>>

(* trimObjectsData over every object, in any order: the result does not    *)
(* depend on the order the map is walked in.                               *)
trimObjectsData(fs, wm, od) ==
    [name \in DOMAIN od |->
        [trimBlocks(fs, wm, od[name], TrimmedIds(od[name]))
            EXCEPT !.isChange = AnyChange(fs, wm, od[name], TrimmedIds(od[name]))]]

(* Phase 3: the trim pass with every load succeeding, and the early        *)
(* return of an unchanged checkpoint.                                      *)
TrimObjects ==
    /\ pc = "trim"
    /\ \A name \in DOMAIN objectsData : \A id \in TrimmedIds(objectsData[name]) :
            CanLoad(srcFs, objectsData[name].data[id].location)
    /\ LET od == trimObjectsData(srcFs, ts, objectsData)
           isChange == \E name \in DOMAIN od : od[name].isChange
       IN /\ isCkpChange' = isChange
          /\ IF ~isChange
             THEN /\ result' = Return(SrcLoc, SrcTnLoc, files, "")
                  /\ pc' = "done"
                  /\ objectsData' = EmptyMap
                  /\ allocated' = DeferredFree(allocated \cup HeldBuffers(od), od)
             ELSE /\ pc' = "rewrite"
                  /\ objectsData' = od
                  /\ allocated' = allocated \cup HeldBuffers(od)
                  /\ UNCHANGED result
    /\ UNCHANGED <<ts, softDeletes, srcFs, dstFs, stored, data, rewritten,
                   insertBatch, files, persisted, ioLog, promoted, srcFs0, dstFs0,
                   arg, out>>

(* Phase 3: a load of the trim pass fails; the error is returned.  The     *)
(* batches loaded before the failing one are held by objectsData, so the   *)
(* deferred loop frees them: the failure is taken at the first load.       *)
TrimObjectsFails ==
    /\ pc = "trim"
    /\ \E name \in DOMAIN objectsData : TrimmedIds(objectsData[name]) # {}
    /\ result' = NilReturn("io")
    /\ pc' = "done"
    /\ objectsData' = EmptyMap
    /\ allocated' = DeferredFree(allocated, objectsData)
    /\ UNCHANGED <<ts, softDeletes, srcFs, dstFs, stored, data, isCkpChange,
                   rewritten, insertBatch, files, persisted, ioLog, promoted, srcFs0,
                   dstFs0, arg, out>>

---------------------------------------------------------------------------
(* Phase 4: the rewrite loop, one object at a time.                        *)

(* dataBlocks: the blocks of the object, sorted by num.                    *)
DataBlocks(object) ==
    LET ids == SeqOfSet(DOMAIN object.data)
    IN [i \in 1..Len(ids) |-> object.data[ids[i]]]

HasWork(object) == object.isChange \/ object.isDeleteBatch

(* The guard of the in-place rewrite.                                      *)
IsInPlace(object) ==
    object.isChange /\
    (~object.isDeleteBatch \/
     (0 \in DOMAIN object.data /\ object.data[0].blockType = "tombstone"))

(* The guard of the transfer to the live-insert table.                     *)
IsTransfer(object) ==
    object.isDeleteBatch /\ 0 \in DOMAIN object.data /\
    object.data[0].blockType # "tombstone"

(* What the block writer holds after the loop over dataBlocks: a sealed    *)
(* object whose blocks are the batches in the order written, with the last *)
(* primary key set.                                                        *)
WriterObject(dataBlocks) ==
    LET keyed == {i \in DOMAIN dataBlocks : dataBlocks[i].sortKey # MaxUint16}
        pk == IF keyed = {} THEN MaxUint16
              ELSE dataBlocks[CHOOSE i \in keyed : \A j \in keyed : j <= i].sortKey
    IN StoredObject(FALSE, pk, [i \in DOMAIN dataBlocks |-> dataBlocks[i].data.rows])

(* The block handles Sync returns: the i-th written block has sequence i.  *)
WrittenBlocks(obj) ==
    [i \in DOMAIN obj.blocks |-> [rows |-> Len(obj.blocks[i]), id |-> i - 1]]

(* A Sync against fs: the name is taken, or the write goes through.        *)
SyncResult(fs, name) == IF name \in DOMAIN fs THEN "exists" ELSE "ok"

LogSync(name, try, res) ==
    [op |-> "sync", fs |-> "dst", name |-> name, try |-> try, res |-> res]

LogDelete(fsName, name, res) ==
    [op |-> "delete", fs |-> fsName, name |-> name, try |-> 1, res |-> res]

(* The metadata rows that point at block blk get location loc.             *)
relocate(d, blk, loc) ==
    LET insHit(r) == (r - 1) \in Range(blk.insertRow)
        delHit(r) == (r - 1) \in Range(blk.deleteRow)
        setIns(row) == IF blk.blockType = "data" THEN [row EXCEPT !.metaLoc = loc]
                       ELSE [row EXCEPT !.deltaLoc = loc]
        setDel(row) == IF blk.blockType = "data"
                       THEN (IF blk.isABlock THEN [row EXCEPT !.metaLoc = loc] ELSE row)
                       ELSE [row EXCEPT !.deltaLoc = loc]
    IN [d EXCEPT
          !.ins    = [r \in DOMAIN @ |-> IF insHit(r) THEN setIns(@[r]) ELSE @[r]],
          !.insTxn = [r \in DOMAIN @ |-> IF insHit(r) THEN setIns(@[r]) ELSE @[r]],
          !.cnIns  = [r \in DOMAIN @ |-> IF delHit(r) THEN setDel(@[r]) ELSE @[r]],
          !.delTxn = [r \in DOMAIN @ |-> IF delHit(r) THEN setDel(@[r]) ELSE @[r]]]

RECURSIVE relocateAll(_, _, _, _, _, _)
(* The loop "for i := range dataBlocks" of the else branch, from i on      *)
(* (0-based).  blocks[i] of a changed object that was not written is an    *)
(* index out of range.                                                     *)
relocateAll(d, object, dataBlocks, blocks, extent, i) ==
    IF i >= Len(dataBlocks) THEN [panic |-> FALSE, data |-> d]
    ELSE IF object.isChange /\ i >= Len(blocks) THEN [panic |-> TRUE, data |-> d]
    ELSE LET loc == IF object.isChange
                    THEN BuildLocation(object.name, extent, blocks[i + 1].rows,
                                       dataBlocks[i + 1].num)
                    ELSE dataBlocks[i + 1].location
         IN relocateAll(relocate(d, dataBlocks[i + 1], loc), object, dataBlocks,
                        blocks, extent, i + 1)

---------------------------------------------------------------------------
(* The Delete Applier and the promotion of an appendable block.            *)

(* applyDelete keeping the marked rows instead of dropping them.           *)
applyDeleteShrink(dataRows, deleteRows, id) ==
    LET rows == {deleteRows[i].rid.off :
                    i \in {j \in DOMAIN deleteRows : deleteRows[j].rid.blk = id}}
        deleteRow == SeqOfSet({i \in 0..(Len(dataRows) - 1) : i \in rows})
    IN Shrink(dataRows, deleteRow)

(* applyDelete(dataBatch, deleteBatch, id): the rows of dataBatch whose    *)
(* offset is the target of a marker that belongs to block id are dropped.  *)
applyDelete(dataRows, deleteRows, id) ==
    LET rows == {deleteRows[i].rid.off :
                    i \in {j \in DOMAIN deleteRows : deleteRows[j].rid.blk = id}}
        deleteRow == SeqOfSet({i \in 0..(Len(dataRows) - 1) : i \in rows})
    IN AntiShrink(dataRows, deleteRow)

RECURSIVE SortRows(_)
(* mergesort.SortBlockColumns on the sort-key column: stable, ascending.   *)
SortRows(rows) ==
    IF rows = <<>> THEN <<>>
    ELSE LET i == CHOOSE x \in DOMAIN rows :
                    /\ \A y \in DOMAIN rows : rows[x].key <= rows[y].key
                    /\ \A y \in 1..(x - 1) : rows[y].key # rows[x].key
         IN <<rows[i]>> \o SortRows(SelectIdx(rows, LAMBDA j : j + 1 # i, 1))

(* batch.NewWithSize(len(Vecs) - 3): the bookkeeping columns are left out. *)
StripBookkeeping(rows) == [i \in DOMAIN rows |-> [key |-> rows[i].key]]

(* fileNum := uint16(1000) + Num(); BuildObjectName(&segment, fileNum)     *)
PromotedName(name) == ObjectName(name.seg, (PromoteOffset + name.num) % (MaxUint16 + 1))

InsertBlock(blockId, location, deleteRow, dataKey) ==
    [blockId |-> blockId, location |-> location, deleteRow |-> deleteRow,
     apply |-> FALSE, data |-> dataKey]

NoBlockid == BuildObjectBlockid(NoName, 0)

AppendInsertBlock(ib, tid, blk) ==
    MapPut(ib, tid, (IF tid \in DOMAIN ib THEN ib[tid] ELSE <<>>) \o <<blk>>)


---------------------------------------------------------------------------
(* The state one iteration of the rewrite loop works on; blocks and extent *)
(* are the iteration's locals.  status is "ok", or how the call ended.     *)

Faults == {"none", "write", "sync", "delete", "sort"}

RewriteState(od, d, dst, src, ib, fls, log, prom) ==
    [od |-> od, d |-> d, dst |-> dst, src |-> src, ib |-> ib, files |-> fls,
     log |-> log, prom |-> prom, status |-> "ok", blocks |-> <<>>,
     extent |-> [nblk |-> 0, nrow |-> 0]]

(* Lines 457-497: the object is written to dstFs under its own name.  When *)
(* Sync reports that the file exists, fileName is deleted from fs and Sync *)
(* is tried once more.                                                     *)
rewriteInPlace(s, name, fault) ==
    LET dataBlocks == DataBlocks(s.od[name])
        obj == WriterObject(dataBlocks)
        s1 == [s EXCEPT !.od[name].isDeleteBatch = FALSE]
        written(st, try) ==
            [st EXCEPT !.dst = MapPut(@, name, obj),
                       !.log = @ \cup {LogSync(name, try, "ok")},
                       !.blocks = WrittenBlocks(obj),
                       !.extent = ExtentOf(obj)]
    IN IF \E i \in DOMAIN dataBlocks : dataBlocks[i].data.nil
       THEN [s1 EXCEPT !.status = "panic"]
       ELSE IF fault = "write" THEN [s1 EXCEPT !.status = "io"]
       ELSE IF fault = "sync"
       THEN [s1 EXCEPT !.status = "io", !.log = @ \cup {LogSync(name, 1, "io")}]
       ELSE IF SyncResult(s1.dst, name) = "ok" THEN written(s1, 1)
       ELSE IF fault = "delete"
       THEN [s1 EXCEPT !.status = "io",
                       !.log = @ \cup {LogSync(name, 1, "exists"),
                                       LogDelete("src", name, "io")}]
       ELSE LET s2 == [s1 EXCEPT !.src = MapDel(@, name),
                                 !.log = @ \cup {LogSync(name, 1, "exists"),
                                                 LogDelete("src", name, "ok")}]
            IN IF SyncResult(s2.dst, name) = "ok" THEN written(s2, 2)
               ELSE [s2 EXCEPT !.status = "exists",
                               !.log = @ \cup {LogSync(name, 2, "exists")}]

RECURSIVE mergeNBlock(_, _, _, _)
(* Lines 502-516, "case of merge nBlock": every block of the object is     *)
(* queued for the table of the first block, from block i (1-based) on.     *)
mergeNBlock(ib, name, dataBlocks, i) ==
    IF i > Len(dataBlocks) THEN ib
    ELSE mergeNBlock(
            AppendInsertBlock(ib, dataBlocks[1].tid,
                InsertBlock(NoBlockid, NoLoc, Last(dataBlocks[i].deleteRow),
                            Key(name, dataBlocks[i].num))),
            name, dataBlocks, i + 1)

(* Lines 517-572: block 0 of an appendable object is turned into a sealed  *)
(* object of its own and queued for the live-insert table.                 *)
promoteABlock(s, name, fault) ==
    LET dataBlocks == DataBlocks(s.od[name])
        b0 == dataBlocks[1]
        tomb == IF b0.tombstone = NoKey THEN NilBatch
                ELSE s.od[b0.tombstone.name].data[b0.tombstone.id].data
        kept == IF tomb.nil THEN b0.data.rows
                ELSE applyDelete(b0.data.rows, tomb.rows, b0.blockId)
        sorted == IF b0.sortKey # MaxUint16 THEN SortRows(kept) ELSE kept
        stripped == StripBookkeeping(sorted)
        newName == PromotedName(b0.location.name)
        obj == StoredObject(FALSE, b0.sortKey, <<stripped>>)
        blocks == WrittenBlocks(obj)
        blockLocation == BuildLocation(newName, ExtentOf(obj), blocks[1].rows, blocks[1].id)
        s1 == [s EXCEPT !.od[name].data[0].data =
                            [Batch(b0.data.attrs, stripped)
                                EXCEPT !.vecs = b0.data.vecs - BookkeepingCols]]
        s2 == [s1 EXCEPT
                 !.dst = MapPut(@, newName, obj),
                 !.log = @ \cup {LogSync(newName, 1, "ok")},
                 !.files = Append(@, newName),
                 !.prom = MapPut(@, name,
                            [into |-> newName, block |-> b0.blockId,
                             location |-> b0.location, tombstone |-> b0.tombstone,
                             input |-> b0.data.rows,
                             markers |-> IF tomb.nil THEN <<>> ELSE tomb.rows,
                             kept |-> kept, written |-> stripped])]
    IN IF Len(dataBlocks) > 2 \/ b0.data.nil THEN [s EXCEPT !.status = "panic"]
       ELSE IF fault = "sort" /\ b0.sortKey # MaxUint16 THEN [s EXCEPT !.status = "io"]
       ELSE IF fault = "write" THEN [s1 EXCEPT !.status = "io"]
       ELSE IF fault = "sync"
       THEN [s1 EXCEPT !.status = "panic",
                       !.log = @ \cup {LogSync(newName, 1, "io")}]
       ELSE IF SyncResult(s1.dst, newName) # "ok"
       THEN [s1 EXCEPT !.status = "panic",
                       !.log = @ \cup {LogSync(newName, 1, "exists")}]
       ELSE IF b0.deleteRow = <<>> THEN [s2 EXCEPT !.status = "panic"]
       ELSE [s2 EXCEPT !.ib = AppendInsertBlock(@, b0.tid,
                                InsertBlock(BuildObjectBlockid(newName, blocks[1].id),
                                            blockLocation, b0.deleteRow[1], NoKey))]

(* Lines 499-626: the second half of an iteration.                         *)
transferOrRelocate(s, name, fault) ==
    LET object == s.od[name]
        dataBlocks == DataBlocks(object)
    IN IF IsTransfer(object)
       THEN IF ~object.isABlock
            THEN IF \E i \in DOMAIN dataBlocks : dataBlocks[i].deleteRow = <<>>
                 THEN [s EXCEPT !.status = "panic"]
                 ELSE [s EXCEPT !.ib = mergeNBlock(@, name, dataBlocks, 1)]
            ELSE promoteABlock(s, name, fault)
       ELSE LET r == relocateAll(s.d, object, dataBlocks, s.blocks, s.extent, 0)
            IN IF r.panic THEN [s EXCEPT !.status = "panic"]
               ELSE [s EXCEPT !.d = r.data]

(* One iteration of "for fileName, objectData := range objectsData".       *)
rewriteObject(s, name, fault) ==
    LET s1 == IF IsInPlace(s.od[name]) THEN rewriteInPlace(s, name, fault) ELSE s
    IN IF s1.status # "ok" THEN s1 ELSE transferOrRelocate(s1, name, fault)

(* The objects the loop has still to visit; the others are skipped by the  *)
(* continue at its head.                                                   *)
Pending(od, done) == {name \in DOMAIN od \ done : HasWork(od[name])}


---------------------------------------------------------------------------
(* Phase 5: the queued blocks are folded into the live-insert table.       *)

(* appendValToBatch(src, dst, row): the row is copied value by value.      *)
appendValToBatch(src, dst, row) == Append(dst, src[row + 1])

(* updateBlockMeta on the live-insert table.                               *)
updateBlockMeta(blkMeta, row, blockID, location, sort) ==
    [blkMeta EXCEPT ![row + 1] =
        [@ EXCEPT !.rowid = HackBlockid2Rowid(blockID),
                  !.id = blockID,
                  !.state = FALSE,
                  !.sorted = sort,
                  !.seg = blockID.name.seg,
                  !.metaLoc = location,
                  !.deltaLoc = NoLoc]]

(* updateBlockMeta on the live-insert txn table.                           *)
updateBlockMetaTxn(blkMetaTxn, row, location) ==
    [blkMetaTxn EXCEPT ![row + 1] = [@ EXCEPT !.metaLoc = location, !.deltaLoc = NoLoc]]

(* sort := true unless the queued entry carries an appendable block        *)
(* without a sort key.                                                     *)
SortFlag(od, blk) ==
    ~(blk.data # NoKey /\ od[blk.data.name].data[blk.data.id].isABlock
                       /\ od[blk.data.name].data[blk.data.id].sortKey = MaxUint16)

RECURSIVE appendQueued(_, _, _, _, _)
(* The queued entries blks[b..] of one table are appended to the new       *)
(* tables t = [meta, txn].                                                 *)
appendQueued(d, od, blks, b, t) ==
    IF b > Len(blks) THEN t
    ELSE LET blk == blks[b]
             meta1 == appendValToBatch(d.cnIns, t.meta, blk.deleteRow)
             txn1 == appendValToBatch(d.delTxn, t.txn, blk.deleteRow)
             row == Len(meta1) - 1
             t1 == IF ~IsEmpty(blk.location)
                   THEN [meta |-> updateBlockMeta(meta1, row, blk.blockId,
                                                  blk.location, SortFlag(od, blk)),
                         txn |-> updateBlockMetaTxn(txn1, row, blk.location)]
                   ELSE [meta |-> meta1, txn |-> txn1]
         IN appendQueued(d, od, blks, b + 1, t1)

RECURSIVE copyLive(_, _, _, _, _, _)
(* Lines 634-663: the live rows are copied from row i (0-based) on; the    *)
(* first live row of a table is followed by the table's queued entries.    *)
copyLive(d, od, ib, i, t, applied) ==
    IF i >= Len(d.ins) THEN [meta |-> t.meta, txn |-> t.txn, applied |-> applied]
    ELSE LET tid == d.insTxn[i + 1].tid
             t1 == [meta |-> appendValToBatch(d.ins, t.meta, i),
                    txn |-> appendValToBatch(d.insTxn, t.txn, i)]
         IN IF tid \in DOMAIN ib /\ tid \notin applied
            THEN copyLive(d, od, ib, i + 1, appendQueued(d, od, ib[tid], 1, t1),
                          applied \cup {tid})
            ELSE copyLive(d, od, ib, i + 1, t1, applied)

RECURSIVE appendRest(_, _, _, _, _, _)
(* Lines 665-690: the tables without a live row, in the order the map      *)
(* yields them.                                                            *)
appendRest(d, od, ib, order, k, t) ==
    IF k > Len(order) THEN t
    ELSE appendRest(d, od, ib, order, k + 1, appendQueued(d, od, ib[order[k]], 1, t))

(* CnRowsToDelete taking the recorded row of every queued entry.           *)
CnRowsToDeleteQueued(od, ib) ==
    UNION {{ib[tid][b].deleteRow : b \in DOMAIN ib[tid]} : tid \in DOMAIN ib}

(* Lines 692-702: the delete-side rows of every queued entry that carries  *)
(* its block.                                                              *)
CnRowsToDelete(od, ib) ==
    UNION {UNION {Range(od[ib[tid][b].data.name].data[ib[tid][b].data.id].deleteRow) :
                    b \in {c \in DOMAIN ib[tid] : ib[tid][c].data # NoKey}} :
            tid \in DOMAIN ib}

(* Batch.Delete of the rows followed by Compact.                           *)
Compact(rows, deleted) == SelectIdx(rows, LAMBDA i : i \notin deleted, 1)

(* Lines 707-735: the range of every table that has a row in txn is set;   *)
(* the range of any other table stays as loaded.                           *)
UpdateRanges(ranges, txn) ==
    [tid \in DOMAIN ranges |->
        IF \E i \in DOMAIN txn : txn[i].tid = tid THEN RangeOf(txn, tid)
        ELSE ranges[tid]]

(* The tables left without a live row after the first pass.                *)
RestTids(d, ib) == DOMAIN ib \ {d.insTxn[i].tid : i \in DOMAIN d.insTxn}

(* Lines 631-740.                                                          *)
reconcile(d, od, ib, order) ==
    IF DOMAIN ib = {} THEN d
    ELSE LET live == copyLive(d, od, ib, 0, [meta |-> <<>>, txn |-> <<>>], {})
             all == appendRest(d, od, ib, order, 1, [meta |-> live.meta, txn |-> live.txn])
             gone == CnRowsToDelete(od, ib)
             delTxn == Compact(d.delTxn, gone)
         IN [cnIns |-> Compact(d.cnIns, gone),
             delTxn |-> delTxn,
             del |-> Compact(d.del, gone),
             ins |-> all.meta,
             insTxn |-> all.txn,
             insRange |-> UpdateRanges(d.insRange, all.txn),
             delRange |-> UpdateRanges(d.delRange, delTxn)]

(* What data.WriteTo reports besides the two locations.                    *)
CheckpointFiles == <<ObjectName("ckp", 4)>>


---------------------------------------------------------------------------
(* Phases 4 and 5 as steps of the call.                                    *)

(* Phase 4: the loop visits one more object; the visit may fail at any of  *)
(* its I/O steps.  An error return and a panic drop the call's locals.     *)
RewriteObject(name) ==
    /\ pc = "rewrite"
    /\ name \in Pending(objectsData, rewritten)
    /\ \E fault \in Faults :
        LET s == rewriteObject(RewriteState(objectsData, data, dstFs, srcFs,
                                            insertBatch, files, ioLog, promoted),
                               name, fault)
        IN /\ dstFs' = s.dst
           /\ srcFs' = s.src
           /\ ioLog' = s.log
           /\ promoted' = s.prom
           /\ IF s.status = "ok"
              THEN /\ pc' = "rewrite"
                   /\ objectsData' = s.od
                   /\ data' = s.d
                   /\ insertBatch' = s.ib
                   /\ files' = s.files
                   /\ rewritten' = rewritten \cup {name}
                   /\ UNCHANGED <<result, allocated>>
              ELSE /\ pc' = IF s.status = "panic" THEN "panic" ELSE "done"
                   /\ result' = IF s.status = "panic" THEN result
                                ELSE NilReturn(s.status)
                   /\ objectsData' = EmptyMap
                   /\ insertBatch' = EmptyMap
                   /\ files' = <<>>
                   /\ rewritten' = {}
                   /\ allocated' = DeferredFree(allocated, s.od)
                   /\ UNCHANGED data
    /\ UNCHANGED <<ts, softDeletes, stored, isCkpChange, persisted, srcFs0, dstFs0,
                   arg, out>>

(* Phase 5: once the loop is over, the queued blocks are folded into the   *)
(* tables; the tables without a live row come in map order.                *)
Reconcile ==
    /\ pc = "rewrite"
    /\ Pending(objectsData, rewritten) = {}
    /\ \E order \in Perms(RestTids(data, insertBatch)) :
        data' = reconcile(data, objectsData, insertBatch, order)
    /\ pc' = "persist"
    /\ UNCHANGED <<ts, softDeletes, srcFs, dstFs, stored, objectsData, isCkpChange,
                   rewritten, insertBatch, files, persisted, result, ioLog, promoted,
                   srcFs0, dstFs0, allocated, arg, out>>

(* data.WriteTo(dstFs, ...) and the return of the new locations.           *)
Persist ==
    /\ pc = "persist"
    /\ \E ok \in BOOLEAN :
        IF ok
        THEN /\ persisted' = [done |-> TRUE, data |-> data]
             /\ result' = Return(NewLoc, NewTnLoc,
                                 files \o CheckpointFiles \o <<NewLoc.name>>, "")
        ELSE /\ result' = NilReturn("io")
             /\ UNCHANGED persisted
    /\ pc' = "done"
    /\ objectsData' = EmptyMap
    /\ insertBatch' = EmptyMap
    /\ rewritten' = {}
    /\ files' = <<>>
    /\ allocated' = DeferredFree(allocated, objectsData)
    /\ UNCHANGED <<ts, softDeletes, srcFs, dstFs, stored, data, isCkpChange, ioLog,
                   promoted, srcFs0, dstFs0, arg, out>>

---------------------------------------------------------------------------
(* SpecTrim: the data branch of the trim loop, applied to one block at the *)
(* watermark t1, to the outcome at the watermark t2, and to the block      *)
(* itself at t2.                                                           *)

TrimRowChoices == UNION {[1..n -> 1..MaxTrimTs] : n \in 0..MaxTrimRows}

InitTrim ==
    /\ pc = "trimtest"
    /\ ts = 1
    /\ softDeletes = EmptyMap
    /\ srcFs = EmptyMap
    /\ dstFs = EmptyMap
    /\ stored = NoData
    /\ data = NoData
    /\ objectsData = EmptyMap
    /\ isCkpChange = FALSE
    /\ rewritten = {}
    /\ insertBatch = EmptyMap
    /\ files = <<>>
    /\ persisted = NotPersisted
    /\ result = NoResult
    /\ ioLog = {}
    /\ promoted = EmptyMap
    /\ srcFs0 = EmptyMap
    /\ dstFs0 = EmptyMap
    /\ allocated = {}
    /\ \E tss \in TrimRowChoices, t1 \in 1..MaxTrimTs, t2 \in 1..MaxTrimTs :
        arg = [rows |-> MkData(A0, tss), t1 |-> t1, t2 |-> t2]
    /\ out = <<>>

TrimFirst ==
    /\ pc = "trimtest"
    /\ Len(out) = 0
    /\ out' = <<trimData(arg.rows, arg.t1).rows>>
    /\ UNCHANGED <<pc, ts, softDeletes, srcFs, dstFs, stored, data, objectsData,
                   isCkpChange, rewritten, insertBatch, files, persisted, result,
                   ioLog, promoted, srcFs0, dstFs0, allocated, arg>>

TrimAgain ==
    /\ pc = "trimtest"
    /\ Len(out) = 1
    /\ out' = Append(out, trimData(out[1], arg.t2).rows)
    /\ UNCHANGED <<pc, ts, softDeletes, srcFs, dstFs, stored, data, objectsData,
                   isCkpChange, rewritten, insertBatch, files, persisted, result,
                   ioLog, promoted, srcFs0, dstFs0, allocated, arg>>

TrimDirect ==
    /\ pc = "trimtest"
    /\ Len(out) = 2
    /\ out' = Append(out, trimData(arg.rows, arg.t2).rows)
    /\ UNCHANGED <<pc, ts, softDeletes, srcFs, dstFs, stored, data, objectsData,
                   isCkpChange, rewritten, insertBatch, files, persisted, result,
                   ioLog, promoted, srcFs0, dstFs0, allocated, arg>>

NextTrim == TrimFirst \/ TrimAgain \/ TrimDirect

SpecTrim == InitTrim /\ [][NextTrim]_vars

---------------------------------------------------------------------------
(* SpecLoad: LoadCheckpointEntriesFromKey.                                 *)

(* SoftDeleteAdd making the inner map anew on every use.                   *)
SoftDeleteAddFresh(sd, loc) == MapPut(sd, loc.name, {loc.id})

(* softDeletes[name][id] = true, the inner map made on first use.          *)
SoftDeleteAdd(sd, loc) ==
    MapPut(sd, loc.name, (IF loc.name \in DOMAIN sd THEN sd[loc.name] ELSE {}) \cup {loc.id})

RECURSIVE EntriesOfInsert(_, _, _)
(* Lines 773-784: the locations of the live-insert rows from row i on.     *)
EntriesOfInsert(d, i, locations) ==
    IF i >= Len(d.ins) THEN locations
    ELSE LET metaLoc == d.ins[i + 1].metaLoc
             deltaLoc == d.ins[i + 1].deltaLoc
         IN EntriesOfInsert(d, i + 1,
                locations \o (IF ~IsEmpty(metaLoc) THEN <<metaLoc>> ELSE <<>>)
                          \o (IF ~IsEmpty(deltaLoc) THEN <<deltaLoc>> ELSE <<>>))

RECURSIVE EntriesOfDelete(_, _, _, _)
(* Lines 785-802: the locations of the delete-side rows from row i on, and *)
(* the soft-delete set they fill (r = [locations, softDeletes]).           *)
EntriesOfDelete(d, i, isNil, r) ==
    IF i >= Len(d.cnIns) THEN r
    ELSE LET metaLoc == d.cnIns[i + 1].metaLoc
             deltaLoc == d.cnIns[i + 1].deltaLoc
         IN EntriesOfDelete(d, i + 1, isNil,
                [locations |-> r.locations
                                \o (IF ~IsEmpty(metaLoc) THEN <<metaLoc>> ELSE <<>>)
                                \o (IF ~IsEmpty(deltaLoc) THEN <<deltaLoc>> ELSE <<>>),
                 softDeletes |-> IF ~IsEmpty(metaLoc) /\ ~isNil
                                 THEN SoftDeleteAdd(r.softDeletes, metaLoc)
                                 ELSE r.softDeletes])

(* LoadCheckpointEntriesFromKey on the loaded checkpoint d.  The list       *)
(* starts with the checkpoint's own location; data.locations (lines        *)
(* 770-772), the further files of the checkpoint itself, is empty for the  *)
(* one-file checkpoints drawn here.                                        *)
LoadCheckpointEntriesFromKey(d, location, sd, isNil) ==
    EntriesOfDelete(d, 0, isNil,
        [locations |-> EntriesOfInsert(d, 0, <<location>>), softDeletes |-> sd])

(* The soft-delete sets a caller hands in: empty, or filled by an earlier  *)
(* call.                                                                   *)
LoadSoftChoices ==
    { EmptyMap,
      [n \in {ObjN} |-> {1}],
      [n \in {ObjS, ObjN, ObjA} |-> IF n = ObjA THEN {1} ELSE {0}] }

InitLoad ==
    /\ pc = "entries"
    /\ ts = 1
    /\ srcFs = SourceFs(DefaultA0, DefaultT0)
    /\ dstFs = EmptyMap
    /\ \E cn \in SubSeqs(CNCandidates, MaxCN), ins \in SubSeqs(InsCandidates, MaxIns) :
        stored = Checkpoint(SourceFs(DefaultA0, DefaultT0), cn, ins)
    /\ \E sd \in LoadSoftChoices, isNil \in BOOLEAN :
        /\ softDeletes = sd
        /\ arg = [isNil |-> isNil, softDeletes |-> sd]
    /\ data = NoData
    /\ objectsData = EmptyMap
    /\ isCkpChange = FALSE
    /\ rewritten = {}
    /\ insertBatch = EmptyMap
    /\ files = <<>>
    /\ persisted = NotPersisted
    /\ result = NoResult
    /\ ioLog = {}
    /\ promoted = EmptyMap
    /\ srcFs0 = SourceFs(DefaultA0, DefaultT0)
    /\ dstFs0 = EmptyMap
    /\ allocated = {}
    /\ out = <<>>

(* The call with getCheckpointData succeeding.                             *)
LoadEntries ==
    /\ pc = "entries"
    /\ LET r == LoadCheckpointEntriesFromKey(stored, SrcLoc, softDeletes, arg.isNil)
       IN /\ softDeletes' = r.softDeletes
          /\ out' = r.locations
    /\ data' = stored
    /\ result' = Return(SrcLoc, NoLoc, <<>>, "")
    /\ pc' = "done"
    /\ UNCHANGED <<ts, srcFs, dstFs, stored, objectsData, isCkpChange, rewritten,
                   insertBatch, files, persisted, ioLog, promoted, srcFs0, dstFs0, allocated, arg>>

(* The call with getCheckpointData failing: nothing is touched.            *)
LoadEntriesFails ==
    /\ pc = "entries"
    /\ result' = NilReturn("io")
    /\ pc' = "done"
    /\ UNCHANGED <<ts, softDeletes, srcFs, dstFs, stored, data, objectsData,
                   isCkpChange, rewritten, insertBatch, files, persisted, ioLog,
                   promoted, srcFs0, dstFs0, allocated, arg, out>>

NextLoad == LoadEntries \/ LoadEntriesFails

SpecLoad == InitLoad /\ [][NextLoad]_vars

---------------------------------------------------------------------------
Next ==
    \/ LoadCheckpoint
    \/ IndexObjects
    \/ TrimObjects
    \/ TrimObjectsFails
    \/ \E name \in DOMAIN objectsData : RewriteObject(name)
    \/ Reconcile
    \/ Persist

Spec == Init /\ [][Next]_vars

(* The same call over the enumerated block contents.                       *)
SpecContents == InitContents /\ [][Next]_vars


---------------------------------------------------------------------------
(* Properties.                                                             *)

(* What indexing makes of the stored checkpoint.                           *)
IndexOfStored == IndexCheckpoint(stored, ts, softDeletes).od

(* The rows the source holds for a block.                                  *)
SourceRows(location) == srcFs0[location.name].blocks[location.id + 1]

NotLate(rows, wm) == SelectSeq(rows, LAMBDA r : r.ts <= wm)

Ordered(rows) == \A i, j \in DOMAIN rows : i <= j => rows[i].ts <= rows[j].ts

(* The longest prefix of rows without a row committed after wm.            *)
PrefixNotLate(rows, wm) ==
    LET n == CHOOSE k \in 0..Len(rows) :
                /\ \A i \in 1..k : rows[i].ts <= wm
                /\ k < Len(rows) => rows[k + 1].ts > wm
    IN SubSeq(rows, 1, n)

(* No row of any indexed block is committed after the watermark.           *)
NoLateRow ==
    LET od == IndexOfStored
    IN \A name \in DOMAIN od : \A id \in DOMAIN od[name].data :
        LET rows == SourceRows(od[name].data[id].location)
        IN \A i \in DOMAIN rows : rows[i].ts <= ts

(* C1: when no row of any indexed block is committed after the watermark,  *)
(* the call never reaches the rewrite: it writes and deletes nothing,      *)
(* persists nothing, and what it returns on success is exactly the two     *)
(* locations it was given and an empty list of written files.              *)
C1_UnchangedReturnsSource ==
    NoLateRow =>
        /\ dstFs = dstFs0
        /\ srcFs = srcFs0
        /\ ioLog = {}
        /\ ~persisted.done
        /\ pc \notin {"rewrite", "persist"}
        /\ (pc = "done" /\ result.err = "" =>
                result = Return(SrcLoc, SrcTnLoc, <<>>, ""))

(* A successful call on a checkpoint whose appendable block and tombstone  *)
(* block both hold a row committed exactly at the watermark.               *)
C1_Witness ==
    /\ pc = "done"
    /\ result.returned /\ result.err = ""
    /\ NoLateRow
    /\ \E name \in DOMAIN IndexOfStored : \E id \in DOMAIN IndexOfStored[name].data :
        /\ IndexOfStored[name].data[id].blockType = "data"
        /\ IndexOfStored[name].data[id].isABlock
        /\ \E i \in DOMAIN SourceRows(IndexOfStored[name].data[id].location) :
              SourceRows(IndexOfStored[name].data[id].location)[i].ts = ts
    /\ \E name \in DOMAIN IndexOfStored : \E id \in DOMAIN IndexOfStored[name].data :
        /\ IndexOfStored[name].data[id].blockType = "tombstone"
        /\ \E i \in DOMAIN SourceRows(IndexOfStored[name].data[id].location) :
              SourceRows(IndexOfStored[name].data[id].location)[i].ts = ts

(* C2: a call that ends with an error leaves both file services as it      *)
(* found them.                                                             *)
C2_AllOrNothing ==
    (pc = "done" /\ result.err # "") => (dstFs = dstFs0 /\ srcFs = srcFs0)


(* The content the rewritten checkpoint has for an indexed block: the      *)
(* trimmed batch, or what the source holds when the block was not loaded.  *)
BlockContent(block) ==
    IF block.data.nil THEN SourceRows(block.location) ELSE block.data.rows

(* C3 as stated: after the trim pass every indexed block, of either kind,  *)
(* appendable or sealed, holds exactly its rows committed at or before the *)
(* watermark.                                                              *)
C3_KeptIffNotLate ==
    (pc = "rewrite" /\ rewritten = {}) =>
        \A name \in DOMAIN objectsData : \A id \in DOMAIN objectsData[name].data :
            BlockContent(objectsData[name].data[id]) =
                NotLate(SourceRows(objectsData[name].data[id].location), ts)

(* C3, amended: after the trim pass a Tombstone block holds exactly its    *)
(* rows committed at or before the watermark; an appendable Data block     *)
(* holds the rows before its first row committed after the watermark,      *)
(* which are all its rows committed at or before the watermark when the    *)
(* block is ordered by commit timestamp; a sealed Data block is not loaded *)
(* and keeps every row.                                                    *)
C3_TrimKeeps ==
    (pc = "rewrite" /\ rewritten = {}) =>
        \A name \in DOMAIN objectsData : \A id \in DOMAIN objectsData[name].data :
            LET block == objectsData[name].data[id]
                rows == SourceRows(block.location)
            IN IF block.blockType = "tombstone"
               THEN ~block.data.nil /\ block.data.rows = NotLate(rows, ts)
               ELSE IF block.isABlock
               THEN /\ ~block.data.nil
                    /\ block.data.rows = PrefixNotLate(rows, ts)
                    /\ Ordered(rows) => block.data.rows = NotLate(rows, ts)
               ELSE block.data.nil /\ BlockContent(block) = rows

(* The trim pass cut a Tombstone block and an ordered appendable Data      *)
(* block, each keeping a row and losing one.                               *)
C3_Witness ==
    /\ pc = "rewrite" /\ rewritten = {}
    /\ \E name \in DOMAIN objectsData : \E id \in DOMAIN objectsData[name].data :
        LET block == objectsData[name].data[id]
        IN /\ block.blockType = "tombstone"
           /\ Len(block.data.rows) > 0
           /\ Len(block.data.rows) < Len(SourceRows(block.location))
    /\ \E name \in DOMAIN objectsData : \E id \in DOMAIN objectsData[name].data :
        LET block == objectsData[name].data[id]
        IN /\ block.blockType = "data" /\ block.isABlock
           /\ Ordered(SourceRows(block.location))
           /\ Len(block.data.rows) > 0
           /\ Len(block.data.rows) < Len(SourceRows(block.location))

(* The markers of the tombstone block paired with a promoted block, as the *)
(* source holds them.                                                      *)
PairedMarkers(p) ==
    IF p.tombstone = NoKey THEN <<>>
    ELSE srcFs0[p.tombstone.name].blocks[p.tombstone.id + 1]

(* The rows of the promoted block's source that are in the sealed object   *)
(* written for it (the sort key identifies a row inside its block).        *)
Survivors(p) ==
    SelectSeq(SourceRows(p.location),
              LAMBDA r : \E i \in DOMAIN dstFs[p.into].blocks[1] :
                            dstFs[p.into].blocks[1][i].key = r.key)

(* C4: no row that survives in a promoted sealed block is the target (same *)
(* block id, same offset) of a marker of the paired tombstone block that   *)
(* was committed at or before the watermark.                               *)
C4_NoDeletedRowSurvives ==
    \A name \in DOMAIN promoted :
        LET p == promoted[name]
        IN /\ p.into \in DOMAIN dstFs
           /\ \A i \in DOMAIN Survivors(p) : \A j \in DOMAIN PairedMarkers(p) :
                ~(PairedMarkers(p)[j].ts <= ts /\ PairedMarkers(p)[j].rid = Survivors(p)[i].rid)

(* A finished rewrite promoted a block of which one row survives and one   *)
(* row, committed in time, was dropped for a marker committed in time.     *)
C4_Witness ==
    /\ pc = "done" /\ persisted.done
    /\ \E name \in DOMAIN promoted :
        LET p == promoted[name]
        IN /\ Len(Survivors(p)) > 0
           /\ \E i \in DOMAIN SourceRows(p.location) : \E j \in DOMAIN PairedMarkers(p) :
                /\ SourceRows(p.location)[i].ts <= ts
                /\ PairedMarkers(p)[j].ts <= ts
                /\ PairedMarkers(p)[j].rid = SourceRows(p.location)[i].rid


(* The entries queued for the live-insert table, over all tables.          *)
QueuedCount(ib) == Sum([tid \in DOMAIN ib |-> Len(ib[tid])], DOMAIN ib)

(* The sealed blocks queued by the merge path.                             *)
MergedIds(ib) ==
    UNION {{BuildObjectBlockid(ib[tid][b].data.name, ib[tid][b].data.id) :
                b \in {c \in DOMAIN ib[tid] : ib[tid][c].data # NoKey}} :
            tid \in DOMAIN ib}

(* C5 as stated: reconciliation adds one live-insert row per queued        *)
(* promotion and removes exactly as many rows from each delete-side table. *)
C5_OneRowInOneRowOut ==
    pc = "persist" =>
        /\ Len(data.ins) = Len(stored.ins) + QueuedCount(insertBatch)
        /\ Len(stored.cnIns) - Len(data.cnIns) = QueuedCount(insertBatch)
        /\ Len(stored.delTxn) - Len(data.delTxn) = QueuedCount(insertBatch)
        /\ Len(stored.del) - Len(data.del) = QueuedCount(insertBatch)

(* C5, amended: reconciliation adds one row per queued block to the        *)
(* live-insert table and its txn table; from the delete-side tables it     *)
(* removes every row of a sealed block queued by the merge path, and no    *)
(* other row: the row of a promoted appendable block stays.                *)
C5_ReconcileCounts ==
    pc = "persist" =>
        /\ Len(data.ins) = Len(stored.ins) + QueuedCount(insertBatch)
        /\ Len(data.insTxn) = Len(data.ins)
        /\ data.del = SelectSeq(stored.del,
                                LAMBDA r : r.rowid.blk \notin MergedIds(insertBatch))
        /\ [i \in DOMAIN data.cnIns |-> data.cnIns[i].id] =
              [i \in DOMAIN data.del |-> data.del[i].rowid.blk]
        /\ Len(data.delTxn) = Len(data.cnIns)

(* A reconciliation with a promoted appendable block, whose delete-side    *)
(* row stays, and a merged sealed block, whose delete-side rows go.        *)
C5_Witness ==
    /\ pc = "persist"
    /\ DOMAIN promoted # {}
    /\ MergedIds(insertBatch) # {}
    /\ Len(data.cnIns) > 0
    /\ Len(data.cnIns) < Len(stored.cnIns)

(* The rows of table rows (0-based) that name the block of entry blk: by   *)
(* their data location for a Data block, by their tombstone location for   *)
(* a Tombstone block.                                                      *)
RowsNaming(rows, name, blk) ==
    {i \in 0..(Len(rows) - 1) :
        LET loc == IF blk.blockType = "data" THEN rows[i + 1].metaLoc
                   ELSE rows[i + 1].deltaLoc
        IN ~IsEmpty(loc) /\ loc.name = name /\ loc.id = blk.num}

(* C6 as stated: indexing makes no BlockEntry for a block of the           *)
(* soft-delete set, whichever table refers to it.                          *)
C6_SoftDeletedNeverIndexed ==
    pc = "trim" =>
        \A name \in DOMAIN softDeletes : \A id \in softDeletes[name] :
            ~(name \in DOMAIN objectsData /\ id \in DOMAIN objectsData[name].data)

(* C6, amended: a delete-side row whose data location is in the            *)
(* soft-delete set is skipped entirely, so that neither its data block nor *)
(* its tombstone block records it; every other delete-side row and every   *)
(* live-insert row, soft-deleted or not, is recorded by the blocks it      *)
(* names.                                                                  *)
C6_DeleteSideSkipsSoftDeleted ==
    pc = "trim" =>
        \A name \in DOMAIN objectsData : \A id \in DOMAIN objectsData[name].data :
            LET blk == objectsData[name].data[id]
            IN /\ Range(blk.deleteRow) =
                    {i \in RowsNaming(data.cnIns, name, blk) :
                        ~(~IsEmpty(data.cnIns[i + 1].metaLoc) /\
                          data.cnIns[i + 1].metaLoc.name \in DOMAIN softDeletes /\
                          data.cnIns[i + 1].metaLoc.id \in
                              softDeletes[data.cnIns[i + 1].metaLoc.name])}
               /\ Range(blk.insertRow) = RowsNaming(data.ins, name, blk)
               /\ Range(blk.deleteRow) \cup Range(blk.insertRow) # {}

(* Every row is recorded by the blocks it names, unless it is skipped.     *)
C6_Witness ==
    /\ pc = "trim"
    /\ \E i \in DOMAIN data.cnIns :
        /\ data.cnIns[i].metaLoc.name \in DOMAIN softDeletes
        /\ data.cnIns[i].metaLoc.id \in softDeletes[data.cnIns[i].metaLoc.name]
        /\ ~(data.cnIns[i].metaLoc.name \in DOMAIN objectsData /\
             data.cnIns[i].metaLoc.id \in DOMAIN objectsData[data.cnIns[i].metaLoc.name].data)
    /\ \E i \in DOMAIN data.ins :
        /\ data.ins[i].metaLoc.name \in DOMAIN softDeletes
        /\ data.ins[i].metaLoc.id \in softDeletes[data.ins[i].metaLoc.name]
        /\ data.ins[i].metaLoc.name \in DOMAIN objectsData
        /\ data.ins[i].metaLoc.id \in DOMAIN objectsData[data.ins[i].metaLoc.name].data


(* C7: for a Data block ordered by commit timestamp and watermarks         *)
(* T' < T, trimming at T and then trimming the result at T' gives the same *)
(* rows as trimming the block once at T'.                                  *)
C7_TrimComposes ==
    (pc = "trimtest" /\ Len(out) = 3 /\ arg.t2 < arg.t1 /\ Ordered(arg.rows)) =>
        out[2] = out[3]

(* An ordered block that both trims cut: the first drops a row, the second *)
(* drops another and leaves one.                                           *)
C7_Witness ==
    /\ pc = "trimtest"
    /\ Len(out) = 3
    /\ arg.t2 < arg.t1
    /\ Ordered(arg.rows)
    /\ Len(out[1]) < Len(arg.rows)
    /\ Len(out[2]) < Len(out[1])
    /\ Len(out[2]) > 0
    /\ out[2] = out[3]


(* The (object name, block index) pairs of a soft-delete set.              *)
SoftKeys(sd) == UNION {{Key(n, id) : id \in sd[n]} : n \in DOMAIN sd}

(* The blocks named by the non-empty data locations of rows.               *)
MetaKeys(rows) ==
    {Key(rows[i].metaLoc.name, rows[i].metaLoc.id) :
        i \in {j \in DOMAIN rows : ~IsEmpty(rows[j].metaLoc)}}

(* The blocks named by the non-empty tombstone locations of rows.          *)
DeltaKeys(rows) ==
    {Key(rows[i].deltaLoc.name, rows[i].deltaLoc.id) :
        i \in {j \in DOMAIN rows : ~IsEmpty(rows[j].deltaLoc)}}

LoadReturned == pc = "done" /\ result.err = "" /\ Len(out) > 0 /\ ~arg.isNil

(* C9 as stated: the set gains exactly the blocks referenced from the      *)
(* delete-side table and not from the live-insert table.                   *)
C9_OnlyDeleteSideAdded ==
    LoadReturned =>
        SoftKeys(softDeletes) =
            SoftKeys(arg.softDeletes) \cup
                (MetaKeys(stored.cnIns) \ (MetaKeys(stored.ins) \cup DeltaKeys(stored.ins)))

(* C9, amended: after a successful call with a non-nil soft-delete set the *)
(* set holds every entry it held before plus exactly the blocks named by   *)
(* the non-empty data locations of the delete-side rows, whether or not a  *)
(* live-insert row names the same block; tombstone locations add nothing.  *)
C9_DeleteSideDataAdded ==
    LoadReturned =>
        /\ SoftKeys(softDeletes) = SoftKeys(arg.softDeletes) \cup MetaKeys(stored.cnIns)
        /\ \A n \in DOMAIN softDeletes : softDeletes[n] # {}

(* A call that adds a block named by both tables to an object the set      *)
(* already knew, and leaves out a tombstone block of the delete side.      *)
C9_Witness ==
    /\ LoadReturned
    /\ MetaKeys(stored.cnIns) \cap MetaKeys(stored.ins) # {}
    /\ \E k \in MetaKeys(stored.cnIns) \ SoftKeys(arg.softDeletes) :
            k.name \in DOMAIN arg.softDeletes
    /\ DeltaKeys(stored.cnIns) \ SoftKeys(softDeletes) # {}


(* C10 as stated: in the in-place rewrite path a Sync that finds the name  *)
(* taken is followed by a delete of the stale object from the destination  *)
(* file service, never from the source, and by one more Sync; the source   *)
(* file service is left as it was.                                         *)
C10_StaleDestinationDeleted ==
    /\ srcFs = srcFs0
    /\ \A e \in ioLog : e.op = "delete" => e.fs = "dst"
    /\ \A e \in ioLog :
        (e.op = "sync" /\ e.try = 2) =>
            /\ LogSync(e.name, 1, "exists") \in ioLog
            /\ LogDelete("dst", e.name, "ok") \in ioLog


(* The rows (1-based) of the persisted live-insert table with block id id. *)
LiveRowsOf(id) ==
    {i \in DOMAIN persisted.data.ins : persisted.data.ins[i].id = id}

(* The object was written by this call.                                    *)
Written(name) == \E try \in 1..2 : LogSync(name, try, "ok") \in ioLog

(* C8: after a rewrite that promoted an appendable block, the live-insert  *)
(* table of the new checkpoint holds exactly one row for the promoted      *)
(* block, with the new block id and location, sealed and without a         *)
(* tombstone location; every original live-insert row of a block that was  *)
(* not rewritten keeps its location; and no live-insert row names the      *)
(* object and block of the original appendable location.                   *)
C8_PromotedRow ==
    (pc = "done" /\ persisted.done) =>
        /\ \A name \in DOMAIN promoted :
            LET p == promoted[name]
                rows == LiveRowsOf(BuildObjectBlockid(p.into, 0))
            IN /\ Cardinality(rows) = 1
               /\ \A i \in rows :
                    /\ persisted.data.ins[i].metaLoc =
                          BuildLocation(p.into, ExtentOf(dstFs[p.into]),
                                        Len(dstFs[p.into].blocks[1]), 0)
                    /\ persisted.data.ins[i].state = FALSE
                    /\ IsEmpty(persisted.data.ins[i].deltaLoc)
               /\ \A i \in DOMAIN persisted.data.ins :
                    ~(persisted.data.ins[i].metaLoc.name = p.location.name /\
                      persisted.data.ins[i].metaLoc.id = p.location.id)
        /\ DOMAIN promoted # {} =>
            \A i \in DOMAIN stored.ins :
                ~Written(stored.ins[i].metaLoc.name) =>
                    \E j \in DOMAIN persisted.data.ins :
                        /\ persisted.data.ins[j].id = stored.ins[i].id
                        /\ persisted.data.ins[j].metaLoc = stored.ins[i].metaLoc


(* The range [offset, end) holds exactly the rows (0-based) of table tid.  *)
RangeExact(range, txn, tid) ==
    {i \in 0..(Len(txn) - 1) : txn[i + 1].tid = tid} =
        {i \in 0..(Len(txn) - 1) : range.offset <= i /\ i < range.end} \cup
        {i \in range.offset..(range.end - 1) : i >= Len(txn)}

(* C11: after a reconciliation with at least one queued block, the range   *)
(* recorded for every table id, in the live-insert table and in the        *)
(* compacted delete-side table, holds exactly the rows of that table; a    *)
(* table without rows has an empty range.                                  *)
C11_RangesExact ==
    (pc = "persist" /\ DOMAIN insertBatch # {}) =>
        \A tid \in Tids :
            /\ RangeExact(data.insRange[tid], data.insTxn, tid)
            /\ RangeExact(data.delRange[tid], data.delTxn, tid)


(* C12: when the call has returned, by the early return, after the         *)
(* persist or with an error of any phase, no column buffer of a loaded     *)
(* block batch is still allocated.                                         *)
C12_AllBuffersReleased ==
    pc = "done" => allocated = {}


(* The object was rewritten under its own name by the loop.                *)
RewrittenInPlace(name) ==
    /\ name \in rewritten
    /\ objectsData[name].isChange
    /\ ~objectsData[name].isDeleteBatch

(* The locations the metadata rows hold for block blk: the data location   *)
(* of the rows of a Data block, the tombstone location of the rows of a    *)
(* Tombstone block.                                                        *)
LocationsOf(blk) ==
    LET pick(row) == IF blk.blockType = "data" THEN row.metaLoc ELSE row.deltaLoc
    IN {pick(data.ins[i + 1]) : i \in Range(blk.insertRow)} \cup
       {pick(data.insTxn[i + 1]) : i \in Range(blk.insertRow)} \cup
       {pick(data.cnIns[i + 1]) : i \in Range(blk.deleteRow)} \cup
       {pick(data.delTxn[i + 1]) : i \in Range(blk.deleteRow)}

(* C13: after an in-place rewrite every metadata row of an indexed block   *)
(* of the object holds a location that names the object and, inside the    *)
(* rewritten object, the block with the trimmed content of that block,     *)
(* with its row count; also when the indexed blocks are not 0..n-1.        *)
C13_RelocationNamesContent ==
    pc = "rewrite" =>
        \A name \in DOMAIN objectsData : RewrittenInPlace(name) =>
            \A k \in DOMAIN objectsData[name].data :
                \A loc \in LocationsOf(objectsData[name].data[k]) :
                    /\ loc.name = name
                    /\ loc.id + 1 \in DOMAIN dstFs[name].blocks
                    /\ dstFs[name].blocks[loc.id + 1] = objectsData[name].data[k].data.rows
                    /\ loc.rows = Len(objectsData[name].data[k].data.rows)


(* C14: the name derived for a promoted block is the name of no object     *)
(* indexed from the checkpoint and of no other promotion of the call.      *)
C14_PromotedNameFresh ==
    \A name \in DOMAIN promoted :
        /\ promoted[name].into = PromotedName(name)
        /\ promoted[name].into \notin DOMAIN IndexOfStored
        /\ \A other \in DOMAIN promoted \ {name} :
                promoted[other].into # promoted[name].into

===========================================================================
